---- MODULE Spec2Model ----
(***************************************************************************)
(* Flight seat booking: the seat inventory transactions of the Seat Store  *)
(* (internal/database/queries.go) and the per-order orchestrator           *)
(* BookingWorkflow (internal/temporal/workflows/booking.go) with its child *)
(* payment flow, driven by the HTTP facade (internal/api/handlers.go).     *)
(*                                                                         *)
(* Time is discrete and kept relative to the current instant: a row       *)
(* carries time.Since(reserved_at) instead of reserved_at, the booking     *)
(* state carries the time since ReservationStartAt, and a timer carries    *)
(* the time left until it is ready.  Tick lets one unit pass.  A quantity  *)
(* stops growing once no comparison of the program can tell it from a      *)
(* larger one.  One unit stands for 7.5 minutes, so the store's hard-coded *)
(* 15 minute staleness cutoff is 2 units; the configured                   *)
(* RESERVATION_TIMEOUT is drawn from Timeouts.                             *)
(***************************************************************************)
EXTENDS Integers, Sequences, FiniteSets, TLC

(* ------------------------------ bounds -------------------------------- *)
MaxSignals == 1
MaxSoloSignals == 2

(* ------------------------- program constants -------------------------- *)
MaximumAttempts == 5
StaleCutoff == 2
UnitSeconds == 450
PaymentMaximumAttempts == 3
PaymentCodeLen == 5
StatusOK == 200
StatusBadRequest == 400
StatusNotFound == 404
StatusInternalServerError == 500

Timeouts == {1, 2, 4}

\* the order ids uuid.New() hands out, in the order it hands them out
OrderIDs == <<"o1", "o2">>
Orders == {OrderIDs[i] : i \in DOMAIN OrderIDs}
UserOf == [o \in Orders |-> IF o = "o1" THEN "alice" ELSE "bob"]

SeatOrder == <<"A1", "A2">>
SeatNumbers == {SeatOrder[i] : i \in DOMAIN SeatOrder}
SeatLists == {<<"A1">>, <<"A2">>, <<"A1", "A2">>, <<"A1", "Z9">>}

Digits == {"0", "1", "2", "3", "4", "5", "6", "7", "8", "9"}
PaymentCodes == {<<"1", "2", "3", "4", "5">>, <<"a", "b", "c", "d", "e">>, <<"1", "2", "3", "4">>}

NULL == "NULL"
NoTime == -1
NoRow == "NOROW"

StatusCreated == "CREATED"
StatusSeatsReserved == "SEATS_RESERVED"
StatusPaymentPending == "PAYMENT_PENDING"
StatusConfirmed == "CONFIRMED"
StatusFailed == "FAILED"
StatusExpired == "EXPIRED"
StatusCancelled == "CANCELLED"

SeatAvailable == "AVAILABLE"
SeatReserved == "RESERVED"
SeatBooked == "BOOKED"

VARIABLES
    ReservationTimeout,  \* cfg.ReservationTimeout
    seatsTbl,            \* table seats: seat_number -> row
    ordersTbl,           \* table orders: order_id -> status column, or NoRow
    paymentsTbl,         \* table payments: order_id -> its rows, oldest first
    api,                 \* position of the facade's CreateOrder handler
    resetFlight,         \* position of the facade's ResetFlight handler
    tx,                  \* the open UpdateSeats transaction of each order: its statement and row locks
    pc,                  \* position of the orchestrator of each order
    status,              \* BookingState.Status
    seats,               \* BookingState.Seats
    sinceReservationStart, \* time since BookingState.ReservationStartAt
    timerFuture,         \* time left until the armed hold timer is ready, or NoTime
    attempts,            \* failed attempts of the activity in flight
    pending,             \* BookingInput.Seats during the initial hold, then the payload of the signal being serviced
    lastCall,            \* the latest Seat Store activity attempt of the order and its outcome
    released,            \* history: the seats the latest successful updateSeats gave up
    workflowErr,         \* the orchestration ended with an error
    seatUpdateChan,      \* signal channel updateSeats
    paymentChan,         \* signal channel submitPayment
    cancelChan,          \* signal channel cancelOrder
    signalsSent          \* number of signals the facade has delivered

dbVars == <<seatsTbl, ordersTbl>>
wfVars == <<pc, status, seats, sinceReservationStart, timerFuture, attempts, pending, lastCall, released, workflowErr>>
chanVars == <<seatUpdateChan, paymentChan, cancelChan, signalsSent>>
vars == <<ReservationTimeout, seatsTbl, ordersTbl, paymentsTbl, api, resetFlight, tx, pc, status, seats, sinceReservationStart, timerFuture, attempts, pending, lastCall, released, workflowErr, seatUpdateChan, paymentChan, cancelChan, signalsSent>>

RangeOf(sq) == {sq[i] : i \in DOMAIN sq}

\* no transaction is open
NoTx == [stmt |-> "none", locks |-> {}]

(* ----------------------------- Seat Store ----------------------------- *)

AvailableRow == [status |-> SeatAvailable, reservedBy |-> NULL, userId |-> NULL, sinceReservedAt |-> NoTime]

\* outcome of a Seat Store call: nil, or the error and the seat it names
NoErr == [kind |-> "OK", seat |-> NULL]
Err(kind, seat) == [kind |-> kind, seat |-> seat]

\* the first row of S in index (seat number) order
FirstRow(S) == SeatOrder[CHOOSE i \in DOMAIN SeatOrder : SeatOrder[i] \in S /\ \A j \in 1..(i - 1) : SeatOrder[j] \notin S]

\* the first requested seat that has no row
FirstMissing(sq) == sq[CHOOSE i \in DOMAIN sq : sq[i] \notin SeatNumbers /\ \A j \in 1..(i - 1) : sq[j] \in SeatNumbers]

\* mutant: the staleness test does not look at the status of the row
TakeableAnyStale(row) ==
    \/ row.status = SeatAvailable
    \/ /\ row.sinceReservedAt # NoTime
       /\ row.sinceReservedAt > StaleCutoff

Takeable(row) ==
    \/ row.status = SeatAvailable
    \/ /\ row.status = SeatReserved
       /\ row.sinceReservedAt # NoTime
       /\ row.sinceReservedAt > StaleCutoff

\* reserved_at = NOW()
HoldRow(orderID, userID) == [status |-> SeatReserved, reservedBy |-> orderID, userId |-> userID, sinceReservedAt |-> 0]

\* lock the rows, check each locked row, then check that every seat was found
CheckSeats(tbl, sq) ==
    LET locked == RangeOf(sq) \cap SeatNumbers
        taken == {s \in locked : ~Takeable(tbl[s])}
    IN  IF taken # {} THEN Err("SeatNotAvailable", FirstRow(taken))
        ELSE IF \E i \in DOMAIN sq : sq[i] \notin SeatNumbers THEN Err("SeatNotExist", FirstMissing(sq))
        ELSE NoErr

WriteHold(tbl, sq, orderID, userID) ==
    [s \in SeatNumbers |-> IF s \in RangeOf(sq) THEN HoldRow(orderID, userID) ELSE tbl[s]]

ReserveSeats(tbl, ords, sq, orderID, userID) ==
    LET chk == CheckSeats(tbl, sq)
    IN  IF chk # NoErr THEN [err |-> chk, rows |-> tbl]
        ELSE IF ords[orderID] = NoRow THEN [err |-> Err("StoreError", NULL), rows |-> tbl]
        ELSE [err |-> NoErr, rows |-> WriteHold(tbl, sq, orderID, userID)]

\* mutant: the release leaves user_id and reserved_at in the row
ReleaseSeatsKeepUser(tbl, orderID) ==
    [s \in SeatNumbers |-> IF tbl[s].reservedBy = orderID THEN [tbl[s] EXCEPT !.status = SeatAvailable, !.reservedBy = NULL] ELSE tbl[s]]

\* mutant: the release writes nothing
ReleaseSeatsKeep(tbl, orderID) == tbl

\* mutant: the release goes by the seat list of the booking state instead of reserved_by
ReleaseSeatsOfState(tbl, orderID) ==
    [s \in SeatNumbers |-> IF s \in RangeOf(seats[orderID]) THEN AvailableRow ELSE tbl[s]]

ReleaseSeats(tbl, orderID) ==
    [s \in SeatNumbers |-> IF tbl[s].reservedBy = orderID THEN AvailableRow ELSE tbl[s]]

\* mutant: the old selection is not released
ReleaseOldNone(tbl, orderID, oldSeats) == tbl

ReleaseOld(tbl, orderID, oldSeats) ==
    [s \in SeatNumbers |-> IF tbl[s].reservedBy = orderID /\ s \in RangeOf(oldSeats) THEN AvailableRow ELSE tbl[s]]

\* mutant: the failed transaction's writes stay
NoRollback(before, inTx) == inTx

\* defer tx.Rollback(): a transaction that did not commit leaves no write
Rollback(before, inTx) == before

\* mutant: the new seats are checked before the old ones are released
UpdateSeatsCheckFirst(tbl, ords, orderID, oldSeats, newSeats) ==
    IF ords[orderID] = NoRow THEN [err |-> Err("StoreError", NULL), rows |-> tbl]
    ELSE LET chk == IF Len(newSeats) > 0 THEN CheckSeats(tbl, newSeats) ELSE NoErr
             freed == IF Len(oldSeats) > 0 THEN ReleaseOld(tbl, orderID, oldSeats) ELSE tbl
         IN  IF chk # NoErr THEN [err |-> chk, rows |-> tbl]
             ELSE [err |-> NoErr, rows |-> IF Len(newSeats) > 0 THEN WriteHold(freed, newSeats, orderID, UserOf[orderID]) ELSE freed]

UpdateSeats(tbl, ords, orderID, oldSeats, newSeats) ==
    IF ords[orderID] = NoRow THEN [err |-> Err("StoreError", NULL), rows |-> tbl]
    ELSE LET freed == IF Len(oldSeats) > 0 THEN ReleaseOld(tbl, orderID, oldSeats) ELSE tbl
             chk == IF Len(newSeats) > 0 THEN CheckSeats(freed, newSeats) ELSE NoErr
         IN  IF chk # NoErr THEN [err |-> chk, rows |-> Rollback(tbl, freed)]
             ELSE [err |-> NoErr, rows |-> IF Len(newSeats) > 0 THEN WriteHold(freed, newSeats, orderID, UserOf[orderID]) ELSE freed]

\* mutant: the confirmation drops the user of the row
ConfirmSeatsDropUser(tbl, orderID) ==
    [s \in SeatNumbers |-> IF tbl[s].reservedBy = orderID THEN [tbl[s] EXCEPT !.status = SeatBooked, !.userId = NULL] ELSE tbl[s]]

ConfirmSeats(tbl, orderID) ==
    [s \in SeatNumbers |-> IF tbl[s].reservedBy = orderID THEN [tbl[s] EXCEPT !.status = SeatBooked] ELSE tbl[s]]

\* UPDATE seats SET status = AVAILABLE, reserved_by = NULL, user_id = NULL, reserved_at = NULL
ResetFlightSeats(tbl) == [s \in SeatNumbers |-> AvailableRow]

\* FOREIGN KEY (reserved_by) REFERENCES orders(order_id) ON DELETE SET NULL
OnDeleteSetNull(tbl, deleted) ==
    [s \in SeatNumbers |-> IF tbl[s].reservedBy \in deleted THEN [tbl[s] EXCEPT !.reservedBy = NULL] ELSE tbl[s]]

(* ----------------------------- Order Store ---------------------------- *)

\* DELETE FROM orders WHERE flight_id = ?
DeleteOrdersByFlight(ords) == [o \in Orders |-> NoRow]

UpdateOrderStatus(ords, orderID, st) ==
    IF ords[orderID] = NoRow THEN ords ELSE [ords EXCEPT ![orderID] = st]

\* errors.New(text): a new error value, told from every other by where it was made
NewError(text, site) == [text |-> text, site |-> site]

NilError == NewError("", "nil")

\* var ErrOrderNotFound = errors.New("order not found")
ErrOrderNotFound == NewError("order not found", "database.ErrOrderNotFound")

\* what the store's UpdateOrderStatus returns: rows == 0 gives errors.New("order not found")
UpdateOrderStatusError(ords, orderID) ==
    IF ords[orderID] = NoRow THEN NewError("order not found", "database.UpdateOrderStatus") ELSE NilError

\* errors.Is on an error that wraps nothing: the same error value
ErrorsIs(err, target) == err = target

\* the activity returns temporal.NewNonRetryableApplicationError only for ErrOrderNotFound
NonRetryable(err) == ErrorsIs(err, ErrOrderNotFound)

\* store calls one UpdateOrderStatus activity makes while the row stays as it is
UpdateOrderStatusCalls(ords, orderID) ==
    LET err == UpdateOrderStatusError(ords, orderID)
    IN  IF err = NilError \/ NonRetryable(err) THEN 1 ELSE MaximumAttempts

\* FOREIGN KEY (order_id) REFERENCES orders(order_id) ON DELETE CASCADE
OnDeleteCascade(pays, deleted) == [o \in Orders |-> IF o \in deleted THEN <<>> ELSE pays[o]]

\* a row of payments, without its id and timestamps
Payment(paymentCode, st, transactionID, errorMessage) ==
    [paymentCode |-> paymentCode, status |-> st, transactionId |-> transactionID, errorMessage |-> errorMessage]

\* INSERT INTO payments (payment_id, order_id, payment_code, transaction_id, status, attempts):
\* error_message is not among the columns, and the order must have a row
CreatePayment(pays, ords, orderID, payment) ==
    IF ords[orderID] = NoRow THEN pays
    ELSE [pays EXCEPT ![orderID] = Append(@, [payment EXCEPT !.errorMessage = NULL])]

\* UPDATE payments ... WHERE order_id = ? ORDER BY created_at DESC LIMIT 1, and
\* CreatePayment when no row was updated
UpdatePaymentRecord(pays, ords, orderID, paymentCode, st, transactionID, errorMessage) ==
    IF pays[orderID] # <<>>
    THEN [pays EXCEPT ![orderID][Len(pays[orderID])] =
            [@ EXCEPT !.status = st, !.transactionId = transactionID, !.errorMessage = errorMessage]]
    ELSE CreatePayment(pays, ords, orderID, Payment(paymentCode, st, transactionID, errorMessage))

(* ---------------------------- Payment Oracle -------------------------- *)

\* transactionID := uuid.New().String()
TransactionID(orderID) == <<"transaction", orderID>>

\* mutant: the oracle checks the length only
ValidFormatAnyFive(code) == Len(code) = PaymentCodeLen

\* regexp ^\d{5}$
ValidFormat(code) == Len(code) = 5 /\ \A i \in DOMAIN code : code[i] \in Digits

(* ---------------------------- Orchestrator ---------------------------- *)

Terminal == {StatusConfirmed, StatusFailed, StatusExpired, StatusCancelled}

\* mutant: EXPIRED does not leave the event loop
ExitLoopNoExpired(st, werr) ==
    \/ st = StatusConfirmed
    \/ st = StatusFailed
    \/ st = StatusCancelled
    \/ werr

\* mutant: FAILED does not leave the event loop
ExitLoopNoFailed(st, werr) ==
    \/ st = StatusConfirmed
    \/ st = StatusExpired
    \/ st = StatusCancelled
    \/ werr

\* mutant: CONFIRMED does not leave the event loop
ExitLoopNoConfirmed(st, werr) ==
    \/ st = StatusFailed
    \/ st = StatusExpired
    \/ st = StatusCancelled
    \/ werr

\* exit conditions of the event loop
ExitLoop(st, werr) ==
    \/ st = StatusConfirmed
    \/ st = StatusFailed
    \/ st = StatusExpired
    \/ st = StatusCancelled
    \/ werr

AfterSelect(st, werr) == IF ExitLoop(st, werr) THEN "done" ELSE "select"

\* a timer does not outlive the orchestration that armed it
TimerAfter(o, st, werr) == [timerFuture EXCEPT ![o] = IF ExitLoop(st, werr) THEN NoTime ELSE @]

\* the retry policy allows no attempt after the one in flight
LastAttempt(o) == attempts[o] + 1 >= MaximumAttempts

\* workflow.NewTimer(timerCtx, cfg.ReservationTimeout): time left until the timer is ready
NewTimer == ReservationTimeout

\* mutant: the timer armed before the edit keeps running
KeepTimer(o) == timerFuture

\* cancelTimer(), then a new timer context and a new timer
ResetTimer(o) == [timerFuture EXCEPT ![o] = NewTimer]

\* the largest value of time.Since(reserved_at) a comparison can tell from a larger one
AgeCap == (IF ReservationTimeout > StaleCutoff THEN ReservationTimeout ELSE StaleCutoff) + 1

Older(t, cap) == IF t = NoTime \/ t >= cap THEN t ELSE t + 1

Call(op, err) == [op |-> op, err |-> err]

Init ==
    /\ ReservationTimeout \in Timeouts
    /\ seatsTbl = [s \in SeatNumbers |-> AvailableRow]
    /\ ordersTbl = [o \in Orders |-> NoRow]
    /\ paymentsTbl = [o \in Orders |-> <<>>]
    /\ api = [o \in Orders |-> "idle"]
    /\ resetFlight = "idle"
    /\ tx = [o \in Orders |-> NoTx]
    /\ pc = [o \in Orders |-> "idle"]
    /\ status = [o \in Orders |-> StatusCreated]
    /\ seats = [o \in Orders |-> <<>>]
    /\ sinceReservationStart = [o \in Orders |-> NoTime]
    /\ timerFuture = [o \in Orders |-> NoTime]
    /\ attempts = [o \in Orders |-> 0]
    /\ pending = [o \in Orders |-> <<>>]
    /\ lastCall = [o \in Orders |-> Call("none", NoErr)]
    /\ released = [o \in Orders |-> {}]
    /\ workflowErr = [o \in Orders |-> FALSE]
    /\ seatUpdateChan = [o \in Orders |-> <<>>]
    /\ paymentChan = [o \in Orders |-> <<>>]
    /\ cancelChan = [o \in Orders |-> <<>>]
    /\ signalsSent = 0

(* one unit of time passes *)
Tick ==
    /\ seatsTbl' = [s \in SeatNumbers |-> [seatsTbl[s] EXCEPT !.sinceReservedAt = Older(@, AgeCap)]]
    /\ sinceReservationStart' = [o \in Orders |-> Older(sinceReservationStart[o], ReservationTimeout)]
    /\ timerFuture' = [o \in Orders |-> IF timerFuture[o] > 0 THEN timerFuture[o] - 1 ELSE timerFuture[o]]
    /\ UNCHANGED <<ReservationTimeout, paymentsTbl, resetFlight, tx, ordersTbl, api, pc, status, seats, attempts, pending, lastCall, released, workflowErr, chanVars>>

\* orderID := uuid.New().String(): the first id not handed out yet
NewOrderID ==
    OrderIDs[CHOOSE i \in DOMAIN OrderIDs :
        api[OrderIDs[i]] = "idle" /\ \A j \in 1..(i - 1) : api[OrderIDs[j]] # "idle"]

(* facade: POST /api/flights/{flightId}/orders *)
CreateOrderStart(o, sq) ==
    /\ api[o] = "idle"
    /\ o = NewOrderID
    /\ api' = [api EXCEPT ![o] = "inserting"]
    /\ pc' = [pc EXCEPT ![o] = "reserving"]
    /\ pending' = [pending EXCEPT ![o] = sq]
    /\ status' = [status EXCEPT ![o] = StatusCreated]
    /\ sinceReservationStart' = [sinceReservationStart EXCEPT ![o] = 0]
    /\ attempts' = [attempts EXCEPT ![o] = 0]
    /\ UNCHANGED <<ReservationTimeout, paymentsTbl, resetFlight, tx, dbVars, seats, timerFuture, lastCall, released, workflowErr, chanVars>>

CreateOrderInsert(o) ==
    /\ api[o] = "inserting"
    /\ api' = [api EXCEPT ![o] = "returned"]
    /\ ordersTbl' = [ordersTbl EXCEPT ![o] = StatusCreated]
    /\ UNCHANGED <<ReservationTimeout, paymentsTbl, resetFlight, tx, seatsTbl, wfVars, chanVars>>

Running(o) == pc[o] \notin {"idle", "done"}

\* remaining := cfg.ReservationTimeout - time.Since(state.ReservationStartAt), not below 0, in whole seconds
TimeRemaining(o) ==
    LET remaining == ReservationTimeout - sinceReservationStart[o]
    IN  (IF remaining < 0 THEN 0 ELSE remaining) * UnitSeconds

\* the body of GET /api/orders/{orderId} for an order that has a row: the
\* orchestrator's state when the query is answered (a closed orchestration
\* answers queries too), else the row's status with no time remaining
GetOrderStatus(o, queryAnswered) ==
    IF queryAnswered
    THEN [status |-> status[o], seats |-> seats[o], timeRemaining |-> TimeRemaining(o)]
    ELSE [status |-> ordersTbl[o], seats |-> <<>>, timeRemaining |-> 0]

\* SignalWorkflow(SignalUpdateSeats), while fewer than budget signals were sent
UpdateSeatsSignal(o, sq, budget) ==
    /\ Len(sq) # 0
    /\ ordersTbl[o] # NoRow
    /\ Running(o)
    /\ signalsSent < budget
    /\ seatUpdateChan' = [seatUpdateChan EXCEPT ![o] = Append(@, sq)]
    /\ signalsSent' = signalsSent + 1
    /\ UNCHANGED <<ReservationTimeout, paymentsTbl, resetFlight, tx, dbVars, api, wfVars, paymentChan, cancelChan>>

(* facade: POST /api/orders/{orderId}/seats *)
UpdateSeatsRequest(o, sq) == UpdateSeatsSignal(o, sq, MaxSignals)

\* mutant: the handler does not look at the length of the code
SubmitPaymentAnyLength(ords, o, code) ==
    IF ords[o] = NoRow THEN StatusNotFound
    ELSE IF ~Running(o) THEN StatusInternalServerError
    ELSE StatusOK

\* the response of POST /api/orders/{orderId}/payment; the signal is sent only on the way to 200
SubmitPayment(ords, o, code) ==
    IF Len(code) # PaymentCodeLen THEN StatusBadRequest
    ELSE IF ords[o] = NoRow THEN StatusNotFound
    ELSE IF ~Running(o) THEN StatusInternalServerError
    ELSE StatusOK

\* SignalWorkflow(SignalSubmitPayment), while fewer than budget signals were sent
SubmitPaymentSignal(o, code, budget) ==
    /\ SubmitPayment(ordersTbl, o, code) = StatusOK
    /\ signalsSent < budget
    /\ paymentChan' = [paymentChan EXCEPT ![o] = Append(@, code)]
    /\ signalsSent' = signalsSent + 1
    /\ UNCHANGED <<ReservationTimeout, paymentsTbl, resetFlight, tx, dbVars, api, wfVars, seatUpdateChan, cancelChan>>

(* facade: POST /api/orders/{orderId}/payment *)
SubmitPaymentRequest(o, code) == SubmitPaymentSignal(o, code, MaxSignals)

\* SignalWorkflow(SignalCancelOrder), while fewer than budget signals were sent
CancelOrderSignal(o, budget) ==
    /\ ordersTbl[o] # NoRow
    /\ Running(o)
    /\ signalsSent < budget
    /\ cancelChan' = [cancelChan EXCEPT ![o] = Append(@, TRUE)]
    /\ signalsSent' = signalsSent + 1
    /\ UNCHANGED <<ReservationTimeout, paymentsTbl, resetFlight, tx, dbVars, api, wfVars, seatUpdateChan, paymentChan>>

(* facade: DELETE /api/orders/{orderId} *)
CancelOrderRequest(o) == CancelOrderSignal(o, MaxSignals)

\* mutant: after the initial hold failed for good the event loop is entered
ReserveDoneEntersLoop(o, r, lastAttempt) ==
    /\ lastCall' = [lastCall EXCEPT ![o] = Call("reserve", r.err)]
    /\ seatsTbl' = r.rows
    /\ IF r.err = NoErr
       THEN /\ seats' = [seats EXCEPT ![o] = pending[o]]
            /\ status' = [status EXCEPT ![o] = StatusSeatsReserved]
            /\ sinceReservationStart' = [sinceReservationStart EXCEPT ![o] = 0]
            /\ ordersTbl' = UpdateOrderStatus(ordersTbl, o, StatusSeatsReserved)
            /\ timerFuture' = [timerFuture EXCEPT ![o] = NewTimer]
            /\ pc' = [pc EXCEPT ![o] = "select"]
            /\ attempts' = [attempts EXCEPT ![o] = 0]
            /\ pending' = [pending EXCEPT ![o] = <<>>]
            /\ UNCHANGED workflowErr
       ELSE IF ~lastAttempt
       THEN /\ attempts' = [attempts EXCEPT ![o] = @ + 1]
            /\ UNCHANGED <<seats, status, sinceReservationStart, ordersTbl, timerFuture, pc, pending, workflowErr>>
       ELSE /\ status' = [status EXCEPT ![o] = StatusFailed]
            /\ pc' = [pc EXCEPT ![o] = "select"]
            /\ workflowErr' = [workflowErr EXCEPT ![o] = TRUE]
            /\ attempts' = [attempts EXCEPT ![o] = 0]
            /\ pending' = [pending EXCEPT ![o] = <<>>]
            /\ UNCHANGED <<seats, sinceReservationStart, ordersTbl, timerFuture>>
    /\ UNCHANGED <<ReservationTimeout, paymentsTbl, resetFlight, tx, api, released, chanVars>>

(* the initial hold: result r of one attempt of the ReserveSeats activity *)
ReserveDone(o, r, lastAttempt) ==
    /\ lastCall' = [lastCall EXCEPT ![o] = Call("reserve", r.err)]
    /\ seatsTbl' = r.rows
    /\ IF r.err = NoErr
       THEN /\ seats' = [seats EXCEPT ![o] = pending[o]]
            /\ status' = [status EXCEPT ![o] = StatusSeatsReserved]
            /\ sinceReservationStart' = [sinceReservationStart EXCEPT ![o] = 0]
            /\ ordersTbl' = UpdateOrderStatus(ordersTbl, o, StatusSeatsReserved)
            /\ timerFuture' = [timerFuture EXCEPT ![o] = NewTimer]
            /\ pc' = [pc EXCEPT ![o] = "select"]
            /\ attempts' = [attempts EXCEPT ![o] = 0]
            /\ pending' = [pending EXCEPT ![o] = <<>>]
            /\ UNCHANGED workflowErr
       ELSE IF ~lastAttempt
       THEN /\ attempts' = [attempts EXCEPT ![o] = @ + 1]
            /\ UNCHANGED <<seats, status, sinceReservationStart, ordersTbl, timerFuture, pc, pending, workflowErr>>
       ELSE /\ status' = [status EXCEPT ![o] = StatusFailed]
            /\ pc' = [pc EXCEPT ![o] = "done"]
            /\ workflowErr' = [workflowErr EXCEPT ![o] = TRUE]
            /\ attempts' = [attempts EXCEPT ![o] = 0]
            /\ pending' = [pending EXCEPT ![o] = <<>>]
            /\ UNCHANGED <<seats, sinceReservationStart, ordersTbl, timerFuture>>
    /\ UNCHANGED <<ReservationTimeout, paymentsTbl, resetFlight, tx, api, released, chanVars>>

ReserveAttempt(o) ==
    /\ pc[o] = "reserving"
    /\ ReserveDone(o, ReserveSeats(seatsTbl, ordersTbl, pending[o], o, UserOf[o]), LastAttempt(o))

(* event loop: the updateSeats signal is selected *)
SelectUpdateSeats(o) ==
    /\ pc[o] = "select"
    /\ seatUpdateChan[o] # <<>>
    /\ pending' = [pending EXCEPT ![o] = Head(seatUpdateChan[o])]
    /\ seatUpdateChan' = [seatUpdateChan EXCEPT ![o] = Tail(@)]
    /\ pc' = [pc EXCEPT ![o] = "updating"]
    /\ attempts' = [attempts EXCEPT ![o] = 0]
    /\ UNCHANGED <<ReservationTimeout, paymentsTbl, resetFlight, tx, dbVars, api, status, seats, sinceReservationStart, timerFuture, lastCall, released, workflowErr, paymentChan, cancelChan, signalsSent>>

\* mutant: a failed update also starts the hold time and the timer anew
UpdateDoneRearms(o, r, lastAttempt) ==
    /\ lastCall' = [lastCall EXCEPT ![o] = Call("update", r.err)]
    /\ seatsTbl' = r.rows
    /\ IF r.err = NoErr
       THEN /\ seats' = [seats EXCEPT ![o] = pending[o]]
            /\ sinceReservationStart' = [sinceReservationStart EXCEPT ![o] = 0]
            /\ timerFuture' = ResetTimer(o)
            /\ released' = [released EXCEPT ![o] = {s \in SeatNumbers : seatsTbl[s].reservedBy = o /\ r.rows[s].reservedBy # o}]
            /\ pc' = [pc EXCEPT ![o] = AfterSelect(status[o], workflowErr[o])]
            /\ attempts' = [attempts EXCEPT ![o] = 0]
            /\ pending' = [pending EXCEPT ![o] = <<>>]
       ELSE IF ~lastAttempt
       THEN /\ attempts' = [attempts EXCEPT ![o] = @ + 1]
            /\ UNCHANGED <<seats, sinceReservationStart, timerFuture, released, pc, pending>>
       ELSE /\ pc' = [pc EXCEPT ![o] = AfterSelect(status[o], workflowErr[o])]
            /\ attempts' = [attempts EXCEPT ![o] = 0]
            /\ pending' = [pending EXCEPT ![o] = <<>>]
            /\ sinceReservationStart' = [sinceReservationStart EXCEPT ![o] = 0]
            /\ timerFuture' = ResetTimer(o)
            /\ UNCHANGED <<seats, released>>
    /\ UNCHANGED <<ReservationTimeout, paymentsTbl, resetFlight, ordersTbl, api, status, workflowErr, chanVars>>

(* result r of one attempt of the UpdateSeats activity *)
UpdateDone(o, r, lastAttempt) ==
    /\ lastCall' = [lastCall EXCEPT ![o] = Call("update", r.err)]
    /\ seatsTbl' = r.rows
    /\ IF r.err = NoErr
       THEN /\ seats' = [seats EXCEPT ![o] = pending[o]]
            /\ sinceReservationStart' = [sinceReservationStart EXCEPT ![o] = 0]
            /\ timerFuture' = ResetTimer(o)
            /\ released' = [released EXCEPT ![o] = {s \in SeatNumbers : seatsTbl[s].reservedBy = o /\ r.rows[s].reservedBy # o}]
            /\ pc' = [pc EXCEPT ![o] = AfterSelect(status[o], workflowErr[o])]
            /\ attempts' = [attempts EXCEPT ![o] = 0]
            /\ pending' = [pending EXCEPT ![o] = <<>>]
       ELSE IF ~lastAttempt
       THEN /\ attempts' = [attempts EXCEPT ![o] = @ + 1]
            /\ UNCHANGED <<seats, sinceReservationStart, timerFuture, released, pc, pending>>
       ELSE /\ pc' = [pc EXCEPT ![o] = AfterSelect(status[o], workflowErr[o])]
            /\ attempts' = [attempts EXCEPT ![o] = 0]
            /\ pending' = [pending EXCEPT ![o] = <<>>]
            /\ UNCHANGED <<seats, sinceReservationStart, timerFuture, released>>
    /\ UNCHANGED <<ReservationTimeout, paymentsTbl, resetFlight, ordersTbl, api, status, workflowErr, chanVars>>

(* the whole transaction of one attempt, run alone *)
UpdateAttempt(o) ==
    /\ pc[o] = "updating"
    /\ UpdateDone(o, UpdateSeats(seatsTbl, ordersTbl, o, seats[o], pending[o]), LastAttempt(o))
    /\ UNCHANGED tx

(* event loop: the submitPayment signal is selected; the child flow starts *)
SelectSubmitPayment(o) ==
    /\ pc[o] = "select"
    /\ paymentChan[o] # <<>>
    /\ pending' = [pending EXCEPT ![o] = Head(paymentChan[o])]
    /\ paymentChan' = [paymentChan EXCEPT ![o] = Tail(@)]
    /\ status' = [status EXCEPT ![o] = StatusPaymentPending]
    /\ ordersTbl' = UpdateOrderStatus(ordersTbl, o, StatusPaymentPending)
    /\ pc' = [pc EXCEPT ![o] = "payment"]
    /\ attempts' = [attempts EXCEPT ![o] = 0]
    /\ UNCHANGED <<ReservationTimeout, paymentsTbl, resetFlight, tx, seatsTbl, api, seats, sinceReservationStart, timerFuture, lastCall, released, workflowErr, seatUpdateChan, cancelChan, signalsSent>>

\* mutant: a failed payment ends the order without a release
PaymentResultNoRelease(o, success) ==
    /\ status' = [status EXCEPT ![o] = IF success THEN StatusConfirmed ELSE StatusFailed]
    /\ pc' = [pc EXCEPT ![o] = IF success THEN "confirming" ELSE "done"]
    /\ attempts' = [attempts EXCEPT ![o] = 0]
    /\ pending' = [pending EXCEPT ![o] = <<>>]

(* the parent's handling of the child's result *)
PaymentResult(o, success) ==
    /\ status' = [status EXCEPT ![o] = IF success THEN StatusConfirmed ELSE StatusFailed]
    /\ pc' = [pc EXCEPT ![o] = IF success THEN "confirming" ELSE "releasing"]
    /\ attempts' = [attempts EXCEPT ![o] = 0]
    /\ pending' = [pending EXCEPT ![o] = <<>>]

\* mutant: the child flow retries as often as the parent's activities
PaymentLastAttemptOfFive(o) == attempts[o] + 1 >= MaximumAttempts

\* the child's retry policy allows no attempt after the one in flight
PaymentLastAttempt(o) == attempts[o] + 1 >= PaymentMaximumAttempts

(* one attempt of the ValidatePayment activity inside the child flow of      *)
(* workflows/payment.go, which writes no payment record                     *)
PaymentAttempt(o, gatewayError) ==
    /\ pc[o] = "payment"
    /\ IF ~ValidFormat(pending[o]) THEN PaymentResult(o, FALSE)
       ELSE IF ~gatewayError THEN PaymentResult(o, TRUE)
       ELSE IF ~PaymentLastAttempt(o)
       THEN /\ attempts' = [attempts EXCEPT ![o] = @ + 1]
            /\ UNCHANGED <<status, pc, pending>>
       ELSE PaymentResult(o, FALSE)
    /\ UNCHANGED <<ReservationTimeout, paymentsTbl, resetFlight, tx, dbVars, api, seats, sinceReservationStart, timerFuture, lastCall, released, workflowErr, chanVars>>

(* the child flow that records its outcome: one attempt of ValidatePayment, *)
(* and UpdatePaymentRecord when the child ends                              *)
PaymentAttemptRecording(o, gatewayError) ==
    /\ pc[o] = "payment"
    /\ IF ~ValidFormat(pending[o])
       THEN /\ PaymentResult(o, FALSE)
            /\ paymentsTbl' = UpdatePaymentRecord(paymentsTbl, ordersTbl, o, pending[o], "FAILED", NULL, "invalid payment code format (must be 5 digits)")
       ELSE IF ~gatewayError
       THEN /\ PaymentResult(o, TRUE)
            /\ paymentsTbl' = UpdatePaymentRecord(paymentsTbl, ordersTbl, o, pending[o], "SUCCESS", TransactionID(o), NULL)
       ELSE IF ~PaymentLastAttempt(o)
       THEN /\ attempts' = [attempts EXCEPT ![o] = @ + 1]
            /\ UNCHANGED <<status, pc, pending, paymentsTbl>>
       ELSE /\ PaymentResult(o, FALSE)
            /\ paymentsTbl' = UpdatePaymentRecord(paymentsTbl, ordersTbl, o, pending[o], "FAILED", NULL, "payment validation failed: payment gateway error")
    /\ UNCHANGED <<ReservationTimeout, resetFlight, tx, dbVars, api, seats, sinceReservationStart, timerFuture, lastCall, released, workflowErr, chanVars>>

(* result of one attempt of the ConfirmSeats activity; its error is ignored *)
ConfirmDone(o, r, lastAttempt) ==
    /\ lastCall' = [lastCall EXCEPT ![o] = Call("confirm", r.err)]
    /\ seatsTbl' = r.rows
    /\ IF r.err # NoErr /\ ~lastAttempt
       THEN /\ attempts' = [attempts EXCEPT ![o] = @ + 1]
            /\ UNCHANGED <<ordersTbl, pc, timerFuture>>
       ELSE /\ ordersTbl' = UpdateOrderStatus(ordersTbl, o, StatusConfirmed)
            /\ pc' = [pc EXCEPT ![o] = AfterSelect(status[o], workflowErr[o])]
            /\ timerFuture' = TimerAfter(o, status[o], workflowErr[o])
            /\ attempts' = [attempts EXCEPT ![o] = 0]
    /\ UNCHANGED <<ReservationTimeout, paymentsTbl, resetFlight, tx, api, status, seats, sinceReservationStart, pending, released, workflowErr, chanVars>>

ConfirmAttempt(o) ==
    /\ pc[o] = "confirming"
    /\ ConfirmDone(o, [err |-> NoErr, rows |-> ConfirmSeats(seatsTbl, o)], LastAttempt(o))

\* mutant: the cancel handler runs in a coroutine of its own, whatever the event loop is waiting for
SelectCancelOrderOwnCoroutine(o) ==
    /\ pc[o] \in {"select", "updating", "payment"}
    /\ cancelChan[o] # <<>>
    /\ cancelChan' = [cancelChan EXCEPT ![o] = Tail(@)]
    /\ status' = [status EXCEPT ![o] = StatusCancelled]
    /\ pc' = [pc EXCEPT ![o] = "releasing"]
    /\ attempts' = [attempts EXCEPT ![o] = 0]
    /\ UNCHANGED <<ReservationTimeout, paymentsTbl, resetFlight, tx, dbVars, api, seats, sinceReservationStart, timerFuture, pending, lastCall, released, workflowErr, seatUpdateChan, paymentChan, signalsSent>>

(* event loop: the cancelOrder signal is selected *)
SelectCancelOrder(o) ==
    /\ pc[o] = "select"
    /\ cancelChan[o] # <<>>
    /\ cancelChan' = [cancelChan EXCEPT ![o] = Tail(@)]
    /\ status' = [status EXCEPT ![o] = StatusCancelled]
    /\ pc' = [pc EXCEPT ![o] = "releasing"]
    /\ attempts' = [attempts EXCEPT ![o] = 0]
    /\ UNCHANGED <<ReservationTimeout, paymentsTbl, resetFlight, tx, dbVars, api, seats, sinceReservationStart, timerFuture, pending, lastCall, released, workflowErr, seatUpdateChan, paymentChan, signalsSent>>

\* mutant: the timer callback also runs while the payment handler waits for the child flow
TimerFiredDuringPayment(o) ==
    /\ pc[o] \in {"select", "payment"}
    /\ timerFuture[o] = 0
    /\ status' = [status EXCEPT ![o] = StatusExpired]
    /\ pc' = [pc EXCEPT ![o] = "releasing"]
    /\ attempts' = [attempts EXCEPT ![o] = 0]
    /\ UNCHANGED <<ReservationTimeout, paymentsTbl, resetFlight, tx, dbVars, api, seats, sinceReservationStart, timerFuture, pending, lastCall, released, workflowErr, chanVars>>

(* event loop: the hold timer is selected *)
TimerFired(o) ==
    /\ pc[o] = "select"
    /\ timerFuture[o] = 0
    /\ status' = [status EXCEPT ![o] = StatusExpired]
    /\ pc' = [pc EXCEPT ![o] = "releasing"]
    /\ attempts' = [attempts EXCEPT ![o] = 0]
    /\ UNCHANGED <<ReservationTimeout, paymentsTbl, resetFlight, tx, dbVars, api, seats, sinceReservationStart, timerFuture, pending, lastCall, released, workflowErr, chanVars>>

\* mutant: a release that failed for good is only logged
ReleaseFailureIgnored(o) == workflowErr

\* workflowErr = fmt.Errorf("failed to release seats: %w", releaseErr)
ReleaseFailed(o) == [workflowErr EXCEPT ![o] = TRUE]

(* result of one attempt of the ReleaseSeats activity after cancel, expiry or payment failure *)
ReleaseDone(o, r, lastAttempt) ==
    /\ lastCall' = [lastCall EXCEPT ![o] = Call("release", r.err)]
    /\ seatsTbl' = r.rows
    /\ IF r.err = NoErr
       THEN /\ ordersTbl' = UpdateOrderStatus(ordersTbl, o, status[o])
            /\ pc' = [pc EXCEPT ![o] = AfterSelect(status[o], workflowErr[o])]
            /\ timerFuture' = TimerAfter(o, status[o], workflowErr[o])
            /\ attempts' = [attempts EXCEPT ![o] = 0]
            /\ UNCHANGED workflowErr
       ELSE IF ~lastAttempt
       THEN /\ attempts' = [attempts EXCEPT ![o] = @ + 1]
            /\ UNCHANGED <<ordersTbl, pc, timerFuture, workflowErr>>
       ELSE /\ workflowErr' = ReleaseFailed(o)
            /\ pc' = [pc EXCEPT ![o] = AfterSelect(status[o], ReleaseFailed(o)[o])]
            /\ timerFuture' = TimerAfter(o, status[o], ReleaseFailed(o)[o])
            /\ attempts' = [attempts EXCEPT ![o] = 0]
            /\ UNCHANGED ordersTbl
    /\ UNCHANGED <<ReservationTimeout, paymentsTbl, resetFlight, tx, api, status, seats, sinceReservationStart, pending, released, chanVars>>

ReleaseAttempt(o) ==
    /\ pc[o] = "releasing"
    /\ ReleaseDone(o, [err |-> NoErr, rows |-> ReleaseSeats(seatsTbl, o)], LastAttempt(o))

(* the Seat Store call in flight fails with a store error (connection, begin, *)
(* deadlock) on every attempt the retry policy still allows                   *)
Outage == [err |-> Err("Outage", NULL), rows |-> seatsTbl]

ReserveOutage(o) == pc[o] = "reserving" /\ ReserveDone(o, Outage, TRUE)

UpdateOutage(o) == pc[o] = "updating" /\ UpdateDone(o, Outage, TRUE) /\ UNCHANGED tx

ConfirmOutage(o) == pc[o] = "confirming" /\ ConfirmDone(o, Outage, TRUE)

ReleaseOutage(o) == pc[o] = "releasing" /\ ReleaseDone(o, Outage, TRUE)

Next ==
    \/ Tick
    \/ \E o \in Orders, sq \in SeatLists : CreateOrderStart(o, sq)
    \/ \E o \in Orders : CreateOrderInsert(o)
    \/ \E o \in Orders, sq \in SeatLists : UpdateSeatsRequest(o, sq)
    \/ \E o \in Orders, code \in PaymentCodes : SubmitPaymentRequest(o, code)
    \/ \E o \in Orders : CancelOrderRequest(o)
    \/ \E o \in Orders : ReserveAttempt(o)
    \/ \E o \in Orders : SelectUpdateSeats(o)
    \/ \E o \in Orders : UpdateAttempt(o)
    \/ \E o \in Orders : SelectSubmitPayment(o)
    \/ \E o \in Orders, g \in BOOLEAN : PaymentAttempt(o, g)
    \/ \E o \in Orders : ConfirmAttempt(o)
    \/ \E o \in Orders : SelectCancelOrder(o)
    \/ \E o \in Orders : TimerFired(o)
    \/ \E o \in Orders : ReleaseAttempt(o)
    \/ \E o \in Orders : ReserveOutage(o)
    \/ \E o \in Orders : UpdateOutage(o)
    \/ \E o \in Orders : ConfirmOutage(o)
    \/ \E o \in Orders : ReleaseOutage(o)

Spec == Init /\ [][Next]_vars

(* two orders have been created for the same AVAILABLE seat and each waits   *)
(* for its first reserveSeats attempt                                        *)
InitRace ==
    /\ ReservationTimeout \in Timeouts
    /\ seatsTbl = [s \in SeatNumbers |-> AvailableRow]
    /\ ordersTbl = [o \in Orders |-> StatusCreated]
    /\ paymentsTbl = [o \in Orders |-> <<>>]
    /\ api = [o \in Orders |-> "returned"]
    /\ resetFlight = "idle"
    /\ tx = [o \in Orders |-> NoTx]
    /\ pc = [o \in Orders |-> "reserving"]
    /\ status = [o \in Orders |-> StatusCreated]
    /\ seats = [o \in Orders |-> <<>>]
    /\ sinceReservationStart = [o \in Orders |-> 0]
    /\ timerFuture = [o \in Orders |-> NoTime]
    /\ attempts = [o \in Orders |-> 0]
    /\ pending = [o \in Orders |-> <<SeatOrder[1]>>]
    /\ lastCall = [o \in Orders |-> Call("none", NoErr)]
    /\ released = [o \in Orders |-> {}]
    /\ workflowErr = [o \in Orders |-> FALSE]
    /\ seatUpdateChan = [o \in Orders |-> <<>>]
    /\ paymentChan = [o \in Orders |-> <<>>]
    /\ cancelChan = [o \in Orders |-> <<>>]
    /\ signalsSent = 0

(* no signal is sent and no store call is cut short *)
NextRace ==
    \/ Tick
    \/ \E o \in Orders : ReserveAttempt(o)
    \/ \E o \in Orders : TimerFired(o)
    \/ \E o \in Orders : ReleaseAttempt(o)

SpecRace == InitRace /\ [][NextRace]_vars

(* orders are created and then left alone: no signal is ever sent *)
NextIdle ==
    \/ Tick
    \/ \E o \in Orders, sq \in SeatLists : CreateOrderStart(o, sq)
    \/ \E o \in Orders : CreateOrderInsert(o)
    \/ \E o \in Orders : ReserveAttempt(o)
    \/ \E o \in Orders : TimerFired(o)
    \/ \E o \in Orders : ReleaseAttempt(o)
    \/ \E o \in Orders : ReserveOutage(o)
    \/ \E o \in Orders : ReleaseOutage(o)

(* time passes, and a worker serves a ready timer and a scheduled activity *)
SpecIdle ==
    /\ Init
    /\ [][NextIdle]_vars
    /\ WF_vars(Tick)
    /\ \A o \in Orders : WF_vars(ReserveAttempt(o) \/ TimerFired(o) \/ ReleaseAttempt(o))

(* facade: POST /api/flights/{flightId}/reset, first statement *)
ResetFlightDeleteOrders ==
    /\ resetFlight = "idle"
    /\ \E o \in Orders : ordersTbl[o] # NoRow
    /\ ordersTbl' = DeleteOrdersByFlight(ordersTbl)
    /\ seatsTbl' = OnDeleteSetNull(seatsTbl, {o \in Orders : ordersTbl[o] # NoRow})
    /\ paymentsTbl' = OnDeleteCascade(paymentsTbl, {o \in Orders : ordersTbl[o] # NoRow})
    /\ resetFlight' = "deleted"
    /\ UNCHANGED <<ReservationTimeout, api, tx, wfVars, chanVars>>

(* facade: POST /api/flights/{flightId}/reset, second statement *)
ResetFlightResetSeats ==
    /\ resetFlight = "deleted"
    /\ seatsTbl' = ResetFlightSeats(seatsTbl)
    /\ resetFlight' = "idle"
    /\ UNCHANGED <<ReservationTimeout, paymentsTbl, ordersTbl, api, tx, wfVars, chanVars>>

(* the second statement fails with a store error: 500, nothing is undone *)
ResetFlightOutage ==
    /\ resetFlight = "deleted"
    /\ resetFlight' = "idle"
    /\ UNCHANGED <<ReservationTimeout, paymentsTbl, dbVars, api, tx, wfVars, chanVars>>

\* a step in which the orchestrator of o runs the UpdateOrderStatus activity
PushesStatus(o) ==
    \/ pc[o] = "reserving" /\ pc'[o] = "select"
    \/ pc[o] = "select" /\ pc'[o] = "payment"
    \/ pc[o] = "confirming" /\ pc'[o] = "done"
    \/ pc[o] = "releasing" /\ pc'[o] = "done" /\ ~workflowErr'[o]

(* ------------- UpdateSeats, one statement and one row lock at a time ------------- *)

\* the orders whose open transaction holds the lock of row s
LockHolders(s) == {n \in Orders : s \in tx[n].locks}

\* rows the statement in progress has yet to lock: the UPDATE that releases
\* the old seats matches reserved_by = orderID AND seat_number IN (oldSeats),
\* the SELECT ... FOR UPDATE matches seat_number IN (newSeats)
Wanted(o) ==
    IF tx[o].stmt = "release"
    THEN {s \in (RangeOf(seats[o]) \cap SeatNumbers) \ tx[o].locks : seatsTbl[s].reservedBy = o}
    ELSE IF tx[o].stmt = "lock"
    THEN (RangeOf(pending[o]) \cap SeatNumbers) \ tx[o].locks
    ELSE {}

\* the transaction of o waits for a row lock that the transaction of n holds
WaitsFor(o, n) == Wanted(o) # {} /\ n # o /\ n \in LockHolders(FirstRow(Wanted(o)))

(* db.Begin() and the read of the order row *)
TxBegin(o) ==
    /\ pc[o] = "updating"
    /\ tx[o] = NoTx
    /\ tx' = [tx EXCEPT ![o] = [stmt |-> "release", locks |-> {}]]
    /\ UNCHANGED <<ReservationTimeout, paymentsTbl, dbVars, api, resetFlight, wfVars, chanVars>>

(* the statement in progress locks its next row, in index order *)
TxLockRow(o) ==
    /\ pc[o] = "updating"
    /\ Wanted(o) # {}
    /\ LockHolders(FirstRow(Wanted(o))) = {}
    /\ tx' = [tx EXCEPT ![o].locks = @ \cup {FirstRow(Wanted(o))}]
    /\ UNCHANGED <<ReservationTimeout, paymentsTbl, dbVars, api, resetFlight, wfVars, chanVars>>

(* the UPDATE that releases the old seats has locked every row it matches *)
TxReleasedOld(o) ==
    /\ pc[o] = "updating"
    /\ tx[o].stmt = "release"
    /\ Wanted(o) = {}
    /\ tx' = [tx EXCEPT ![o].stmt = "lock"]
    /\ UNCHANGED <<ReservationTimeout, paymentsTbl, dbVars, api, resetFlight, wfVars, chanVars>>

(* every new seat is locked: the checks, the write and tx.Commit(), or the rollback *)
TxFinish(o) ==
    /\ pc[o] = "updating"
    /\ tx[o].stmt = "lock"
    /\ Wanted(o) = {}
    /\ tx' = [tx EXCEPT ![o] = NoTx]
    /\ UpdateDone(o, UpdateSeats(seatsTbl, ordersTbl, o, seats[o], pending[o]), LastAttempt(o))

(* the store finds a wait cycle and rolls one of its transactions back *)
TxDeadlock(o) ==
    /\ pc[o] = "updating"
    /\ \E n \in Orders : WaitsFor(o, n) /\ WaitsFor(n, o)
    /\ tx' = [tx EXCEPT ![o] = NoTx]
    /\ UpdateDone(o, [err |-> Err("Deadlock", NULL), rows |-> seatsTbl], LastAttempt(o))

\* each order holds one seat and is in its event loop
InitLocks ==
    /\ ReservationTimeout \in Timeouts
    /\ seatsTbl = [s \in SeatNumbers |-> IF s = SeatOrder[1] THEN HoldRow(OrderIDs[1], UserOf[OrderIDs[1]]) ELSE HoldRow(OrderIDs[2], UserOf[OrderIDs[2]])]
    /\ ordersTbl = [o \in Orders |-> StatusSeatsReserved]
    /\ paymentsTbl = [o \in Orders |-> <<>>]
    /\ api = [o \in Orders |-> "returned"]
    /\ resetFlight = "idle"
    /\ tx = [o \in Orders |-> NoTx]
    /\ pc = [o \in Orders |-> "select"]
    /\ status = [o \in Orders |-> StatusSeatsReserved]
    /\ seats = [o \in Orders |-> IF o = OrderIDs[1] THEN <<SeatOrder[1]>> ELSE <<SeatOrder[2]>>]
    /\ sinceReservationStart = [o \in Orders |-> 0]
    /\ timerFuture = [o \in Orders |-> NewTimer]
    /\ attempts = [o \in Orders |-> 0]
    /\ pending = [o \in Orders |-> <<>>]
    /\ lastCall = [o \in Orders |-> Call("reserve", NoErr)]
    /\ released = [o \in Orders |-> {}]
    /\ workflowErr = [o \in Orders |-> FALSE]
    /\ seatUpdateChan = [o \in Orders |-> <<>>]
    /\ paymentChan = [o \in Orders |-> <<>>]
    /\ cancelChan = [o \in Orders |-> <<>>]
    /\ signalsSent = 0

(* two orders edit their seats at the same time *)
NextLocks ==
    \/ \E o \in Orders, sq \in SeatLists : UpdateSeatsSignal(o, sq, MaxSoloSignals)
    \/ \E o \in Orders : SelectUpdateSeats(o)
    \/ \E o \in Orders : TxBegin(o)
    \/ \E o \in Orders : TxLockRow(o)
    \/ \E o \in Orders : TxReleasedOld(o)
    \/ \E o \in Orders : TxFinish(o)
    \/ \E o \in Orders : TxDeadlock(o)

SpecLocks == InitLocks /\ [][NextLocks]_vars

(* a single order, which may be sent up to MaxSoloSignals signals *)
SoloOrder == OrderIDs[1]

SoloStep ==
    \/ ReserveAttempt(SoloOrder)
    \/ SelectUpdateSeats(SoloOrder)
    \/ UpdateAttempt(SoloOrder)
    \/ SelectSubmitPayment(SoloOrder)
    \/ \E g \in BOOLEAN : PaymentAttempt(SoloOrder, g)
    \/ ConfirmAttempt(SoloOrder)
    \/ SelectCancelOrder(SoloOrder)
    \/ TimerFired(SoloOrder)
    \/ ReleaseAttempt(SoloOrder)

NextSolo ==
    \/ Tick
    \/ \E sq \in SeatLists : CreateOrderStart(SoloOrder, sq)
    \/ CreateOrderInsert(SoloOrder)
    \/ \E sq \in SeatLists : UpdateSeatsSignal(SoloOrder, sq, MaxSoloSignals)
    \/ \E code \in PaymentCodes : SubmitPaymentSignal(SoloOrder, code, MaxSoloSignals)
    \/ CancelOrderSignal(SoloOrder, MaxSoloSignals)
    \/ SoloStep
    \/ ReserveOutage(SoloOrder)
    \/ UpdateOutage(SoloOrder)
    \/ ConfirmOutage(SoloOrder)
    \/ ReleaseOutage(SoloOrder)

(* time passes, a worker serves ready timers, received signals and scheduled *)
(* activities; the facade and the store faults are under no obligation       *)
SpecSolo ==
    /\ Init
    /\ [][NextSolo]_vars
    /\ WF_vars(Tick)
    /\ WF_vars(SoloStep)

(* a single order whose child payment flow records its outcome *)
NextRecording ==
    \/ Tick
    \/ \E sq \in SeatLists : CreateOrderStart(SoloOrder, sq)
    \/ CreateOrderInsert(SoloOrder)
    \/ \E code \in PaymentCodes : SubmitPaymentSignal(SoloOrder, code, MaxSoloSignals)
    \/ CancelOrderSignal(SoloOrder, MaxSoloSignals)
    \/ ReserveAttempt(SoloOrder)
    \/ SelectSubmitPayment(SoloOrder)
    \/ \E g \in BOOLEAN : PaymentAttemptRecording(SoloOrder, g)
    \/ ConfirmAttempt(SoloOrder)
    \/ SelectCancelOrder(SoloOrder)
    \/ TimerFired(SoloOrder)
    \/ ReleaseAttempt(SoloOrder)
    \/ ReleaseOutage(SoloOrder)

SpecRecording == Init /\ [][NextRecording]_vars

(* a single order and the administrative reset *)
NextAdmin ==
    \/ NextSolo
    \/ ResetFlightDeleteOrders
    \/ ResetFlightResetSeats
    \/ ResetFlightOutage

SpecAdmin == Init /\ [][NextAdmin]_vars

(* ------------------------------- Claims ------------------------------- *)

\* C1: in every reachable state, two distinct orders whose status is
\* SEATS_RESERVED, PAYMENT_PENDING or CONFIRMED carry disjoint seat lists.
C1_NoDoubleHold ==
    LET live == {StatusSeatsReserved, StatusPaymentPending, StatusConfirmed}
    IN  \A o, p \in Orders :
            (o # p /\ status[o] \in live /\ status[p] \in live)
                => RangeOf(seats[o]) \cap RangeOf(seats[p]) = {}

\* C2: a reserveSeats that requests a seat that is BOOKED, or RESERVED for
\* less than the hold window (ReservationTimeout), fails with
\* SeatNotAvailable naming a requested seat that is held, and changes no row.
C2_HeldSeatRejected ==
    [][\A o \in Orders :
        LET ran == /\ pc[o] = "reserving"
                   /\ (pc'[o] # "reserving" \/ attempts'[o] # attempts[o])
                   /\ lastCall'[o].err.kind # "Outage"
            held(s) == \/ seatsTbl[s].status = SeatBooked
                       \/ /\ seatsTbl[s].status = SeatReserved
                          /\ seatsTbl[s].sinceReservedAt # NoTime
                          /\ seatsTbl[s].sinceReservedAt < ReservationTimeout
            asked == RangeOf(pending[o]) \cap SeatNumbers
        IN  (ran /\ \E s \in asked : held(s))
                => /\ lastCall'[o].err.kind = "SeatNotAvailable"
                   /\ lastCall'[o].err.seat \in asked
                   /\ seatsTbl[lastCall'[o].err.seat].status # SeatAvailable
                   /\ seatsTbl' = seatsTbl]_vars

\* C3: of two orders started together for the same AVAILABLE seat and sent
\* no signal, never both reach SEATS_RESERVED, and once both have left the
\* initial hold one has reached it and the other is FAILED owning no row.
C3_ExactlyOneWinner ==
    LET reached(o) == status[o] \in {StatusSeatsReserved, StatusExpired}
        owned(o) == {s \in SeatNumbers : seatsTbl[s].reservedBy = o}
    IN  /\ ~(\A o \in Orders : reached(o))
        /\ (\A o \in Orders : pc[o] # "reserving")
              => \E w \in Orders :
                    /\ reached(w)
                    /\ \A l \in Orders \ {w} : status[l] = StatusFailed /\ owned(l) = {}

\* C4: for every configured ReservationTimeout, a reserveSeats by an order
\* whose requested rows all exist and are AVAILABLE or RESERVED for longer
\* than ReservationTimeout succeeds and takes the rows.
C4_ExpiryReclaimable ==
    [][\A o \in Orders :
        LET ran == /\ pc[o] = "reserving"
                   /\ (pc'[o] # "reserving" \/ attempts'[o] # attempts[o])
                   /\ lastCall'[o].err.kind # "Outage"
            expired(s) == /\ seatsTbl[s].status = SeatReserved
                          /\ seatsTbl[s].sinceReservedAt # NoTime
                          /\ seatsTbl[s].sinceReservedAt > ReservationTimeout
            asked == RangeOf(pending[o])
        IN  (/\ ran
             /\ ordersTbl[o] # NoRow
             /\ asked \subseteq SeatNumbers
             /\ \A s \in asked : seatsTbl[s].status = SeatAvailable \/ expired(s)
             /\ \E s \in asked : expired(s))
                => /\ lastCall'[o].err = NoErr
                   /\ \A s \in asked : seatsTbl'[s].reservedBy = o]_vars

\* C5: once an order's status is CONFIRMED, FAILED, EXPIRED or CANCELLED, no
\* step (a queued signal being selected, a timer firing, an activity
\* completing) changes its status or its seat list.
C5_TerminalAbsorption ==
    [][\A o \in Orders :
        status[o] \in Terminal => (status'[o] = status[o] /\ seats'[o] = seats[o])]_vars

\* a terminated order that still has a signal queued
C5_Witness ==
    \E o \in Orders :
        /\ pc[o] = "done"
        /\ status[o] \in Terminal
        /\ (seatUpdateChan[o] # <<>> \/ paymentChan[o] # <<>> \/ cancelChan[o] # <<>>)

C7_TransactionAtomicity ==
    [][\A o \in Orders :
        LET ran == /\ pc[o] = "updating"
                   /\ (pc'[o] # "updating" \/ attempts'[o] # attempts[o])
        IN  (ran /\ lastCall'[o].err # NoErr) => seatsTbl' = seatsTbl]_vars

\* an edit was refused because a new seat is held, and the order still owns
\* every seat of its prior selection
C7_Witness ==
    \E o \in Orders :
        /\ lastCall[o].op = "update"
        /\ lastCall[o].err.kind = "SeatNotAvailable"
        /\ status[o] = StatusSeatsReserved
        /\ seats[o] # <<>>
        /\ \A s \in RangeOf(seats[o]) :
                seatsTbl[s].reservedBy = o /\ seatsTbl[s].status = SeatReserved

\* C8: whenever an orchestrator has terminated with status CONFIRMED, every
\* seat in its seat list is a BOOKED row with reservedBy equal to its id.
C8_ConfirmedMeansBooked ==
    \A o \in Orders :
        (pc[o] = "done" /\ status[o] = StatusConfirmed)
            => \A s \in RangeOf(seats[o]) :
                    seatsTbl[s].status = SeatBooked /\ seatsTbl[s].reservedBy = o

\* C9: an order in SEATS_RESERVED that receives no signal reaches EXPIRED,
\* not before ReservationTimeout has elapsed since its hold (re)started, and
\* when its release has completed the rows of its seat list are AVAILABLE
\* with cleared ownership and takeable by a new order.
C9_HoldExpiry ==
    /\ \A o \in Orders : (status[o] = StatusSeatsReserved) ~> (status[o] = StatusExpired)
    /\ [][\A o \in Orders :
            /\ (status[o] # StatusExpired /\ status'[o] = StatusExpired)
                    => sinceReservationStart[o] = ReservationTimeout
            /\ (/\ pc[o] = "releasing"
                /\ status[o] = StatusExpired
                /\ pc'[o] = "done"
                /\ lastCall'[o] = Call("release", NoErr))
                    => \A s \in RangeOf(seats[o]) :
                            /\ seatsTbl'[s] = AvailableRow
                            /\ CheckSeats(seatsTbl', <<s>>) = NoErr]_vars

\* C10: the armed hold timer is always due ReservationTimeout after the most
\* recent successful hold (re)start, and an order becomes EXPIRED only when
\* ReservationTimeout has elapsed since that (re)start.
C10_TimerReset ==
    /\ [](\A o \in Orders :
            timerFuture[o] # NoTime
                => timerFuture[o] = ReservationTimeout - sinceReservationStart[o])
    /\ [][\A o \in Orders :
            (status[o] # StatusExpired /\ status'[o] = StatusExpired)
                => sinceReservationStart[o] = ReservationTimeout]_vars

\* an order that edited its seats part-way through its hold, and later expired
C10_Witness ==
    \E o \in Orders :
        /\ status[o] = StatusExpired
        /\ released[o] # {}
        /\ lastCall[o] = Call("release", NoErr)

\* C11: a cancelOrder signal served while the order is SEATS_RESERVED sets the
\* status CANCELLED; the release that follows turns every seat row the order
\* owns into an AVAILABLE row with no owner, and any other order that has a
\* row in the Order Store can then reserve each of those seats.
C11_CancelReleases ==
    [][\A o \in Orders :
        /\ (pc[o] = "select" /\ status[o] = StatusSeatsReserved /\ cancelChan'[o] # cancelChan[o] /\ pc'[o] # "select")
               => (status'[o] = StatusCancelled /\ pc'[o] = "releasing")
        /\ (pc[o] = "releasing" /\ status[o] = StatusCancelled /\ pc'[o] # "releasing" /\ lastCall'[o] = Call("release", NoErr))
               => /\ status'[o] = StatusCancelled
                  /\ \A s \in SeatNumbers : seatsTbl[s].reservedBy = o =>
                        /\ seatsTbl'[s] = AvailableRow
                        /\ \A n \in Orders \ {o} : ordersTbl'[n] # NoRow =>
                              ReserveSeats(seatsTbl', ordersTbl', <<s>>, n, UserOf[n]).err = NoErr
    ]_vars

\* a cancelled order whose release succeeded, and a seat of its selection now held by another order
C11_Witness ==
    \E o \in Orders : \E n \in Orders \ {o} : \E s \in RangeOf(seats[o]) :
        /\ status[o] = StatusCancelled
        /\ pc[o] = "done"
        /\ lastCall[o] = Call("release", NoErr)
        /\ ordersTbl[o] = StatusCancelled
        /\ s \in SeatNumbers
        /\ seatsTbl[s] = HoldRow(n, UserOf[n])

C13_PaymentFailureReleases ==
    [][\A o \in Orders :
        /\ (pc[o] = "payment" /\ pc'[o] # "payment") =>
              \/ status'[o] = StatusConfirmed /\ ValidFormat(pending[o])
              \/ status'[o] = StatusFailed /\ pc'[o] = "releasing"
        /\ ~(pc[o] = "payment" /\ ~ValidFormat(pending[o]) /\ attempts'[o] # attempts[o])
        /\ (pc[o] = "payment" /\ attempts'[o] = attempts[o] + 1) => attempts'[o] < PaymentMaximumAttempts
        /\ (pc[o] = "releasing" /\ status[o] = StatusFailed /\ pc'[o] # "releasing" /\ lastCall'[o] = Call("release", NoErr)) =>
              /\ pc'[o] = "done"
              /\ status'[o] = StatusFailed
              /\ ordersTbl'[o] = StatusFailed
              /\ \A s \in SeatNumbers : seatsTbl[s].reservedBy = o => seatsTbl'[s] = AvailableRow
        /\ status'[o] = StatusPaymentPending => pc'[o] = "payment"
        /\ (pc'[o] = "done" /\ status'[o] = StatusFailed /\ ~workflowErr'[o]) =>
              \A s \in SeatNumbers : seatsTbl'[s].reservedBy # o
    ]_vars

\* a payment failed, the release succeeded, and the seats of the order are free again
C13_Witness ==
    \E o \in Orders :
        /\ status[o] = StatusFailed
        /\ pc[o] = "done"
        /\ lastCall[o] = Call("release", NoErr)
        /\ ~workflowErr[o]
        /\ ordersTbl[o] = StatusFailed
        /\ seats[o] # <<>>
        /\ \A s \in RangeOf(seats[o]) \cap SeatNumbers : seatsTbl[s] = AvailableRow

\* C14: when releaseSeats fails for good after a cancel, an expiry or a payment
\* failure, the orchestration stops with an error, its in-memory status is the
\* intended terminal one (CANCELLED, EXPIRED or FAILED) and that status is not
\* pushed to the Order Store; an orchestration that ended with one of these
\* statuses and no error owns no seat row.
C14_CompensationFailureVisible ==
    [][\A o \in Orders :
        /\ (pc[o] = "releasing" /\ pc'[o] # "releasing" /\ lastCall'[o].err # NoErr) =>
              /\ workflowErr'[o]
              /\ pc'[o] = "done"
              /\ status'[o] = status[o]
              /\ status'[o] \in {StatusCancelled, StatusExpired, StatusFailed}
              /\ ordersTbl'[o] = ordersTbl[o]
        /\ (pc'[o] = "done" /\ ~workflowErr'[o] /\ status'[o] \in {StatusCancelled, StatusExpired, StatusFailed}) =>
              \A s \in SeatNumbers : seatsTbl'[s].reservedBy # o
    ]_vars

\* a cancelled order whose release failed: ended with an error, a seat row still its own
C14_Witness ==
    \E o \in Orders : \E s \in SeatNumbers :
        /\ pc[o] = "done"
        /\ workflowErr[o]
        /\ status[o] = StatusCancelled
        /\ lastCall[o] = Call("release", Err("Outage", NULL))
        /\ ordersTbl[o] = StatusSeatsReserved
        /\ seatsTbl[s].reservedBy = o

\* C15: an orchestration that ended after its last Seat Store call succeeded
\* has discharged its hold: when CONFIRMED every seat of its list is BOOKED
\* for it, and when EXPIRED, CANCELLED or FAILED it owns no seat row.
C15_HoldDischarged ==
    \A o \in Orders :
        (pc[o] = "done" /\ ~workflowErr[o] /\ lastCall[o].err = NoErr /\ seats[o] # <<>>) =>
            \/ /\ status[o] = StatusConfirmed
               /\ \A s \in RangeOf(seats[o]) : seatsTbl[s].status = SeatBooked /\ seatsTbl[s].reservedBy = o
            \/ /\ status[o] \in {StatusExpired, StatusCancelled, StatusFailed}
               /\ \A s \in SeatNumbers : seatsTbl[s].reservedBy # o

\* C15, termination: an order that reached SEATS_RESERVED reaches a terminal status
C15_EventuallyTerminal ==
    \A o \in Orders : (status[o] = StatusSeatsReserved) ~> (status[o] \in Terminal)

\* C16: from any reachable seat table, when reserveSeats(S, o, u) succeeds and
\* releaseSeats(o) follows, every seat of S is AVAILABLE with reservedBy,
\* userId and reservedAt null and the rows of other orders are as before the
\* release; a second releaseSeats(o), or one for an order that owns no row,
\* changes no row.
C16_ReserveReleaseRoundTrip ==
    \A o \in Orders :
        /\ \A sq \in SeatLists :
              LET r == ReserveSeats(seatsTbl, ordersTbl, sq, o, UserOf[o])
                  t == ReleaseSeats(r.rows, o)
              IN  r.err = NoErr =>
                    /\ \A s \in RangeOf(sq) : t[s] = AvailableRow
                    /\ \A s \in SeatNumbers : t[s].reservedBy # o
                    /\ \A s \in SeatNumbers : r.rows[s].reservedBy # o => t[s] = r.rows[s]
                    /\ ReleaseSeats(t, o) = t
        /\ (\A s \in SeatNumbers : seatsTbl[s].reservedBy # o) => ReleaseSeats(seatsTbl, o) = seatsTbl
        /\ ReleaseSeats(ReleaseSeats(seatsTbl, o), o) = ReleaseSeats(seatsTbl, o)

\* an order's release has run on rows it had reserved, while another order holds a seat
C16_Witness ==
    \E o \in Orders : \E n \in Orders \ {o} :
        /\ lastCall[o] = Call("release", NoErr)
        /\ seats[o] # <<>>
        /\ \A s \in RangeOf(seats[o]) : seatsTbl[s] = AvailableRow
        /\ \E s \in SeatNumbers : seatsTbl[s].reservedBy = n
        /\ ReserveSeats(seatsTbl, ordersTbl, seats[o], n, UserOf[n]).err = NoErr

\* C17: from any reachable seat table, when reserveSeats(S, o, u) succeeds and
\* confirmSeats(o) follows, every seat of S is BOOKED with reservedBy = o,
\* userId = u and the reservedAt the reservation wrote, the rows of other
\* orders are untouched, and a second confirmSeats(o) changes no row.
C17_ReserveConfirmRoundTrip ==
    \A o \in Orders :
        /\ \A sq \in SeatLists :
              LET r == ReserveSeats(seatsTbl, ordersTbl, sq, o, UserOf[o])
                  t == ConfirmSeats(r.rows, o)
              IN  r.err = NoErr =>
                    /\ \A s \in RangeOf(sq) :
                          /\ t[s].status = SeatBooked
                          /\ t[s].reservedBy = o
                          /\ t[s].userId = UserOf[o]
                          /\ t[s].sinceReservedAt = r.rows[s].sinceReservedAt
                    /\ \A s \in SeatNumbers : r.rows[s].reservedBy # o => t[s] = r.rows[s]
                    /\ ConfirmSeats(t, o) = t
        /\ ConfirmSeats(ConfirmSeats(seatsTbl, o), o) = ConfirmSeats(seatsTbl, o)

\* an order's confirmation has run on the rows it had reserved
C17_Witness ==
    \E o \in Orders :
        /\ lastCall[o] = Call("confirm", NoErr)
        /\ status[o] = StatusConfirmed
        /\ seats[o] # <<>>
        /\ \A s \in RangeOf(seats[o]) :
              /\ seatsTbl[s].status = SeatBooked
              /\ seatsTbl[s].reservedBy = o
              /\ seatsTbl[s].userId = UserOf[o]
              /\ seatsTbl[s].sinceReservedAt # NoTime

\* C18: in every reachable state, also while and after the administrative
\* reset runs, an AVAILABLE seat row has reservedBy, userId and reservedAt
\* null, and a RESERVED or BOOKED seat row has a reservedBy.
C18_SeatRowInvariant ==
    \A s \in SeatNumbers :
        /\ seatsTbl[s].status = SeatAvailable => seatsTbl[s] = AvailableRow
        /\ seatsTbl[s].status \in {SeatReserved, SeatBooked} => seatsTbl[s].reservedBy # NULL

\* C19: an initial reserveSeats that the Seat Store rejects with
\* SeatNotAvailable or SeatNotExist is the only attempt of that call: no
\* attempt came before it, none follows it, and the orchestrator ends FAILED.
C19_RejectionNotRetried ==
    [][\A o \in Orders :
        (/\ pc[o] = "reserving"
         /\ pc'[o] # "reserving" \/ attempts'[o] # attempts[o]
         /\ lastCall'[o].op = "reserve"
         /\ lastCall'[o].err.kind \in {"SeatNotAvailable", "SeatNotExist"}) =>
            /\ attempts[o] = 0
            /\ pc'[o] = "done"
            /\ status'[o] = StatusFailed
    ]_vars

\* C20: when the orchestrator pushes a status for an order whose row is gone,
\* the store's error is OrderNotFound, the activity takes it as non-retryable
\* and the store is called once.
C20_OrderNotFoundNotRetried ==
    [][\A o \in Orders :
        (PushesStatus(o) /\ ordersTbl[o] = NoRow) =>
            /\ ErrorsIs(UpdateOrderStatusError(ordersTbl, o), ErrOrderNotFound)
            /\ UpdateOrderStatusCalls(ordersTbl, o) = 1
    ]_vars

\* C21: a reserveSeats whose request names a seat that has no row fails with
\* SeatNotExist naming the first such seat and writes no row, whatever the
\* state of the other requested seats.
C21_SeatNotExistFirst ==
    [][\A o \in Orders :
        (/\ pc[o] = "reserving"
         /\ pc'[o] # "reserving" \/ attempts'[o] # attempts[o]
         /\ lastCall'[o].err.kind # "Outage"
         /\ \E i \in DOMAIN pending[o] : pending[o][i] \notin SeatNumbers) =>
            /\ lastCall'[o] = Call("reserve", Err("SeatNotExist", FirstMissing(pending[o])))
            /\ seatsTbl' = seatsTbl
    ]_vars

\* C22: no two open seat transactions ever wait for each other's row locks.
C22_NoLockCycle ==
    \A o \in Orders : \A n \in Orders : ~(WaitsFor(o, n) /\ WaitsFor(n, o))

\* C23: a payment code whose length is not 5 is answered 400 whatever the
\* state of the order, and the handler sends a signal only on its way to 200:
\* no such code is ever in the submitPayment channel or handed to the payment
\* flow, so the rejected request changes nothing of the orchestrator or the rows.
C23_BadLengthRejected ==
    \A o \in Orders :
        /\ \A code \in PaymentCodes : Len(code) # PaymentCodeLen => SubmitPayment(ordersTbl, o, code) = StatusBadRequest
        /\ \A i \in DOMAIN paymentChan[o] : Len(paymentChan[o][i]) = PaymentCodeLen
        /\ pc[o] = "payment" => Len(pending[o]) = PaymentCodeLen

\* an order in SEATS_RESERVED that would take a five-character code is refused a four-character one
C23_Witness ==
    \E o \in Orders : \E code \in PaymentCodes : \E good \in PaymentCodes :
        /\ status[o] = StatusSeatsReserved
        /\ pc[o] = "select"
        /\ signalsSent < MaxSignals
        /\ Len(code) # PaymentCodeLen
        /\ SubmitPayment(ordersTbl, o, code) = StatusBadRequest
        /\ SubmitPayment(ordersTbl, o, good) = StatusOK
        /\ paymentChan[o] = <<>>

\* C24: for one submitPayment signal the Payment Oracle is invoked at most
\* PaymentMaximumAttempts (3) times: a gateway error on a well-formed code is
\* retried while attempts remain, an accepted attempt ends the flow with the
\* parent CONFIRMED, and a gateway error on the third attempt ends it FAILED.
C24_PaymentRetryBound ==
    [][\A o \in Orders : pc[o] = "payment" =>
        /\ attempts[o] + 1 <= PaymentMaximumAttempts
        /\ (pc'[o] = "payment" /\ attempts'[o] # attempts[o]) =>
              /\ attempts'[o] = attempts[o] + 1
              /\ attempts'[o] < PaymentMaximumAttempts
              /\ ValidFormat(pending[o])
        /\ (pc'[o] # "payment" /\ status'[o] = StatusConfirmed) =>
              /\ pc'[o] = "confirming"
              /\ ValidFormat(pending[o])
        /\ (pc'[o] # "payment" /\ status'[o] # StatusConfirmed) =>
              /\ status'[o] = StatusFailed
              /\ ValidFormat(pending[o]) => attempts[o] + 1 = PaymentMaximumAttempts
    ]_vars

\* two gateway errors on a well-formed code: the third and last attempt is due
C24_Witness ==
    \E o \in Orders :
        /\ pc[o] = "payment"
        /\ status[o] = StatusPaymentPending
        /\ ValidFormat(pending[o])
        /\ attempts[o] = PaymentMaximumAttempts - 1

\* C25: a code with a character that is not a decimal digit, once it is with
\* the Payment Oracle, is refused on the first invocation and not retried:
\* the flow has made no earlier attempt, its next step ends it, the parent
\* sets FAILED and goes on to release the seats.
C25_BadFormatNotRetried ==
    [][\A o \in Orders :
        (pc[o] = "payment" /\ \E i \in DOMAIN pending[o] : pending[o][i] \notin Digits) =>
            /\ attempts[o] = 0
            /\ pc'[o] = "payment" => attempts'[o] = 0
            /\ pc'[o] # "payment" => (status'[o] = StatusFailed /\ pc'[o] = "releasing")
    ]_vars

\* five letters passed the facade's length check and are with the Payment Oracle
C25_Witness ==
    \E o \in Orders :
        /\ pc[o] = "payment"
        /\ status[o] = StatusPaymentPending
        /\ Len(pending[o]) = PaymentCodeLen
        /\ \A i \in DOMAIN pending[o] : pending[o][i] \notin Digits

\* C26: the timeRemaining of GET /api/orders/{orderId} is never negative, is
\* max(0, ReservationTimeout - time since reservationStartAt) when the
\* orchestrator answers, and is 0 when the hold has lapsed and when the
\* order is in a terminal state.
C26_TimeRemaining ==
    \A o \in Orders : \A q \in BOOLEAN :
        (ordersTbl[o] # NoRow /\ pc[o] # "idle") =>
            LET r == GetOrderStatus(o, q)
            IN  /\ r.timeRemaining >= 0
                /\ sinceReservationStart[o] >= ReservationTimeout => r.timeRemaining = 0
                /\ r.status \in Terminal => r.timeRemaining = 0

\* C26, between queries: while no signal is served and no hold begins, timeRemaining does not grow
C26_NonIncreasing ==
    [][\A o \in Orders :
        (pc'[o] = pc[o] \/ pc[o] \notin {"reserving", "updating"}) =>
            GetOrderStatus(o, TRUE).timeRemaining' <= GetOrderStatus(o, TRUE).timeRemaining
    ]_vars

\* C27: whenever the orchestrator of an order runs an attempt of its initial
\* reserveSeats, the row of that order is in the Order Store.
C27_OrderRowBeforeHold ==
    [][\A o \in Orders :
        (/\ pc[o] = "reserving"
         /\ pc'[o] # "reserving" \/ attempts'[o] # attempts[o]
         /\ lastCall'[o].op = "reserve"
         /\ lastCall'[o].err.kind # "Outage") => ordersTbl[o] # NoRow
    ]_vars

C29_FailedUpdateFrame ==
    [][\A o \in Orders :
        (/\ pc[o] = "updating"
         /\ pc'[o] # "updating" \/ attempts'[o] # attempts[o]
         /\ lastCall'[o].op = "update"
         /\ lastCall'[o].err # NoErr) =>
            /\ seats'[o] = seats[o]
            /\ status'[o] = status[o]
            /\ status'[o] = StatusSeatsReserved
            /\ sinceReservationStart'[o] = sinceReservationStart[o]
            /\ timerFuture'[o] = timerFuture[o]
            /\ timerFuture'[o] # NoTime
            /\ pc'[o] \in {"updating", "select"}
            /\ seatsTbl' = seatsTbl
    ]_vars

\* an update was refused after time had passed: the timer has less than the full hold time left
C29_Witness ==
    \E o \in Orders :
        /\ pc[o] = "select"
        /\ lastCall[o].op = "update"
        /\ lastCall[o].err.kind \in {"SeatNotAvailable", "SeatNotExist"}
        /\ timerFuture[o] < ReservationTimeout
        /\ timerFuture[o] # NoTime
        /\ sinceReservationStart[o] > 0

\* C30: when the initial reserveSeats fails for good the orchestrator sets
\* FAILED and ends with an error in that same step: no hold timer is armed,
\* no queued signal is received, the event loop is not entered, the seat
\* list stays empty and no seat row belongs to the order.
C30_InitialHoldFailure ==
    [][\A o \in Orders :
        (/\ pc[o] = "reserving"
         /\ pc'[o] # "reserving"
         /\ lastCall'[o].err # NoErr) =>
            /\ status'[o] = StatusFailed
            /\ pc'[o] = "done"
            /\ workflowErr'[o]
            /\ timerFuture'[o] = NoTime
            /\ seats'[o] = <<>>
            /\ seatUpdateChan'[o] = seatUpdateChan[o]
            /\ paymentChan'[o] = paymentChan[o]
            /\ cancelChan'[o] = cancelChan[o]
            /\ \A s \in SeatNumbers : seatsTbl'[s].reservedBy # o
    ]_vars

\* the initial hold was refused on every attempt while a signal for the order was waiting
C30_Witness ==
    \E o \in Orders :
        /\ pc[o] = "done"
        /\ status[o] = StatusFailed
        /\ workflowErr[o]
        /\ lastCall[o].op = "reserve"
        /\ lastCall[o].err.kind \in {"SeatNotAvailable", "SeatNotExist"}
        /\ timerFuture[o] = NoTime
        /\ seatUpdateChan[o] # <<>> \/ paymentChan[o] # <<>> \/ cancelChan[o] # <<>>

C32_OneHandlerAtATime ==
    [][\A o \in Orders :
        LET received(ch) == ch[o] # <<>> /\ ch'[o] = Tail(ch[o])
            timer == status[o] # StatusExpired /\ status'[o] = StatusExpired
            serviced == (IF received(seatUpdateChan) THEN 1 ELSE 0)
                        + (IF received(paymentChan) THEN 1 ELSE 0)
                        + (IF received(cancelChan) THEN 1 ELSE 0)
                        + (IF timer THEN 1 ELSE 0)
            inFlight == pc[o] \in {"reserving", "updating", "payment", "confirming", "releasing"}
        IN  /\ serviced <= 1
            /\ inFlight => serviced = 0
            /\ (pc[o] = "select" /\ pc'[o] # "select") => serviced = 1
            /\ (inFlight /\ pc'[o] # pc[o])
                    => \/ pc'[o] \in {"select", "done"}
                       \/ pc[o] = "payment" /\ pc'[o] \in {"confirming", "releasing"}]_vars

\* an activity of the order is in flight while a signal is queued and the
\* hold timer is ready
C32_Witness ==
    \E o \in Orders :
        /\ pc[o] = "updating"
        /\ cancelChan[o] # <<>>
        /\ timerFuture[o] = 0

\* C33: when the child payment flow of an order ends, the most recent
\* payment record of the order carries the outcome: status SUCCESS with the
\* transactionId when the oracle succeeded, status FAILED with an
\* errorMessage when it failed; the upsert changes the newest row of the
\* order when there is one and inserts a row only when the order has none.
C33_PaymentRecorded ==
    [][\A o \in Orders :
        LET ended == pc[o] = "payment" /\ pc'[o] # "payment"
            before == paymentsTbl[o]
            after == paymentsTbl'[o]
            latest == after[Len(after)]
        IN  ended
                => /\ after # <<>>
                   /\ Len(after) = (IF before = <<>> THEN 1 ELSE Len(before))
                   /\ \A i \in 1..(Len(after) - 1) : after[i] = before[i]
                   /\ status'[o] = StatusConfirmed
                        => /\ latest.status = "SUCCESS"
                           /\ latest.transactionId = TransactionID(o)
                   /\ status'[o] = StatusFailed
                        => /\ latest.status = "FAILED"
                           /\ latest.errorMessage # NULL]_vars

\* what the child flow that calls UpdatePaymentRecord leaves behind: one
\* row per order; SUCCESS carries the transaction id, FAILED carries no
\* error message, because the INSERT of CreatePayment does not write one
C33_RecordingVariant ==
    \A o \in Orders :
        /\ Len(paymentsTbl[o]) <= 1
        /\ \A i \in DOMAIN paymentsTbl[o] :
            /\ paymentsTbl[o][i].status = "SUCCESS" => paymentsTbl[o][i].transactionId = TransactionID(o)
            /\ paymentsTbl[o][i].errorMessage = NULL

\* C34: whenever an orchestrator has terminated, normally or with an error
\* (initial-hold failure and release failure included), and no write of the
\* status failed (a write fails only when the order has no row), the status
\* column of the order's row equals the orchestrator's final status.
C34_OrderStoreProjection ==
    \A o \in Orders :
        (pc[o] = "done" /\ ordersTbl[o] # NoRow) => ordersTbl[o] = status[o]

\* the part of C34 about the four outcomes of the event loop: an
\* orchestrator that ended without an error left its final status in the row
C34_EventLoopOutcomes ==
    \A o \in Orders :
        (pc[o] = "done" /\ ~workflowErr[o] /\ ordersTbl[o] # NoRow) => ordersTbl[o] = status[o]

\* C35: per orchestrator run at most one submitPayment signal is received
\* and at most one child payment flow is started: a payment signal is
\* received, and the child started, only in SEATS_RESERVED; the status then
\* never is SEATS_RESERVED again; the child's end leaves CONFIRMED or FAILED,
\* and the handler's end leaves the event loop, so a further submitPayment
\* signal stays in the channel.
C35_OnePaymentPerRun ==
    [][\A o \in Orders :
        LET received == paymentChan[o] # <<>> /\ paymentChan'[o] = Tail(paymentChan[o])
            childStarts == pc[o] # "payment" /\ pc'[o] = "payment"
        IN  /\ (received \/ childStarts)
                => /\ received /\ childStarts
                   /\ status[o] = StatusSeatsReserved
                   /\ status'[o] = StatusPaymentPending
            /\ status[o] \in {StatusPaymentPending} \cup Terminal => status'[o] # StatusSeatsReserved
            /\ (pc[o] = "payment" /\ pc'[o] # "payment") => status'[o] \in {StatusConfirmed, StatusFailed}
            /\ (pc[o] \in {"confirming", "releasing"} /\ pc'[o] # pc[o]) => pc'[o] = "done"]_vars

\* the first payment was charged and confirmed, and the second submitPayment
\* signal is still in the channel of the closed orchestration
C35_Witness ==
    \E o \in Orders :
        /\ pc[o] = "done"
        /\ status[o] = StatusConfirmed
        /\ lastCall[o] = Call("confirm", NoErr)
        /\ paymentChan[o] # <<>>

\* C36: an attempt of releaseSeats(o) or confirmSeats(o) changes only rows
\* whose reservedBy is o: every row owned by another order or by none is
\* left as it is. So when the stale hold of o was taken over by p, the later
\* release of o (expiry, cancellation, payment failure) leaves p's rows alone.
C36_ReleaseConfirmFrame ==
    [][\A o \in Orders :
        LET ran == /\ pc[o] \in {"releasing", "confirming"}
                   /\ (pc'[o] # pc[o] \/ attempts'[o] # attempts[o])
        IN  ran => \A s \in SeatNumbers :
                        seatsTbl[s].reservedBy # o => seatsTbl'[s] = seatsTbl[s]]_vars

\* the release of o has completed while a seat of o's seat list is held by
\* another order p, which took it over
C36_Witness ==
    \E o, p \in Orders, s \in SeatNumbers :
        /\ o # p
        /\ pc[o] = "done"
        /\ lastCall[o] = Call("release", NoErr)
        /\ s \in RangeOf(seats[o])
        /\ s \in RangeOf(seats[p])
        /\ seatsTbl[s].reservedBy = p
        /\ seatsTbl[s].status = SeatReserved

\* C37: a BOOKED row is permanent under orchestrator operations: whatever
\* the age of its reservedAt, no reserveSeats or updateSeats of any order
\* takes it and no step of any orchestrator changes its status, reservedBy
\* or userId; only a statement of the administrative reset changes it.
C37_BookedPermanent ==
    [][\A s \in SeatNumbers :
        seatsTbl[s].status = SeatBooked
            => \/ /\ seatsTbl'[s].status = SeatBooked
                  /\ seatsTbl'[s].reservedBy = seatsTbl[s].reservedBy
                  /\ seatsTbl'[s].userId = seatsTbl[s].userId
               \/ resetFlight' # resetFlight]_vars

\* an order asked for a seat that is BOOKED for another order since longer
\* than the staleness cutoff, and was refused
C37_Witness ==
    \E o, p \in Orders, s \in SeatNumbers :
        /\ o # p
        /\ seatsTbl[s].status = SeatBooked
        /\ seatsTbl[s].reservedBy = o
        /\ seatsTbl[s].sinceReservedAt > StaleCutoff
        /\ lastCall[p] = Call("reserve", Err("SeatNotAvailable", s))
        /\ status[p] = StatusFailed

====
